---------------------------- MODULE Spec2Model ----------------------------
(***************************************************************************)
(* SecureCheck: the simulated security-assessment engine                   *)
(* (utils/securityAssessment) and the page that drives it (pages/Index     *)
(* with DomainInput and AppSidebar).                                       *)
(*                                                                         *)
(* A JavaScript string is a sequence of one-character strings.  A 32-bit   *)
(* integer is a pair of 16-bit limbs [hi, lo], so that the wrap-around of  *)
(* simpleHash is computed exactly.                                         *)
(***************************************************************************)
EXTENDS Integers, Sequences, FiniteSets, TLC

VARIABLES
  parts,        \* harness: the pieces the input string is built from
  input,        \* harness: the string handed to the engine's functions
  pc,           \* harness: which of the engine's functions have been called
  cleaned,      \* harness: cleanDomain(input)
  recleaned,    \* harness: cleanDomain(cleanDomain(input))
  valid,        \* harness: isValidDomain(input)
  first,        \* harness: report of the first call on input
  second,       \* harness: report of a later call on input
  bare,         \* harness: report of a call on the bare domain of parts
  typed,        \* DomainInput: the text field's value (useState, domain)
  currentView,  \* Index: useState<ViewType>
  isLoading,    \* Index: useState(false)
  report,       \* Index: useState<SecurityReport | null>
  toast,        \* the last notice shown by useToast
  pending,      \* Index: submissions waiting for their setTimeout
  engineCalls,  \* number of invocations of performSecurityAssessment
  saved,        \* ExportView: the last file handed to doc.save
  now           \* the clock read by new Date()

vars == <<parts, input, pc, cleaned, recleaned, valid, first, second, bare,
          typed, currentView, isLoading, report, toast, pending,
          engineCalls, saved, now>>

harnessVars == <<parts, input, pc, cleaned, recleaned, valid, first, second, bare>>
pageVars == <<typed, currentView, isLoading, report, pending>>

-----------------------------------------------------------------------------
(* Characters and the string primitives of JavaScript the engine uses.     *)

LowerLetters == <<"a","b","c","d","e","f","g","h","i","j","k","l","m","n","o","p","q","r","s","t","u","v","w","x","y","z">>
UpperLetters == <<"A","B","C","D","E","F","G","H","I","J","K","L","M","N","O","P","Q","R","S","T","U","V","W","X","Y","Z">>
Digits == <<"0","1","2","3","4","5","6","7","8","9">>

Range(s) == {s[i] : i \in 1..Len(s)}

IndexOf(s, c) == CHOOSE i \in 1..Len(s) : s[i] = c

\* String.prototype.charCodeAt, for the characters of the model's alphabet.
charCodeAt(c) ==
  IF c \in Range(LowerLetters) THEN 96 + IndexOf(LowerLetters, c)
  ELSE IF c \in Range(UpperLetters) THEN 64 + IndexOf(UpperLetters, c)
  ELSE IF c \in Range(Digits) THEN 47 + IndexOf(Digits, c)
  ELSE CASE c = " " -> 32
         [] c = "-" -> 45
         [] c = "." -> 46
         [] c = "/" -> 47
         [] c = ":" -> 58
         [] c = "=" -> 61
         [] c = "?" -> 63
         [] c = "_" -> 95

\* String.prototype.toLowerCase
toLowerCase(s) ==
  [i \in 1..Len(s) |->
     IF s[i] \in Range(UpperLetters)
     THEN LowerLetters[IndexOf(UpperLetters, s[i])]
     ELSE s[i]]

IsWhiteSpace(c) == c = " "

RECURSIVE trimStart(_)
trimStart(s) ==
  IF s # <<>> /\ IsWhiteSpace(Head(s)) THEN trimStart(Tail(s)) ELSE s

RECURSIVE trimEnd(_)
trimEnd(s) ==
  IF s # <<>> /\ IsWhiteSpace(s[Len(s)])
  THEN trimEnd(SubSeq(s, 1, Len(s) - 1))
  ELSE s

\* String.prototype.trim
trim(s) == trimEnd(trimStart(s))

\* String.prototype.startsWith
startsWith(s, p) == Len(p) <= Len(s) /\ SubSeq(s, 1, Len(p)) = p

\* String.prototype.endsWith
endsWith(s, p) ==
  Len(p) <= Len(s) /\ SubSeq(s, Len(s) - Len(p) + 1, Len(s)) = p

Drop(s, n) == SubSeq(s, n + 1, Len(s))

\* The value of an array index that is out of range, and of anything
\* computed from it.
Undefined == <<"undefined">>

\* String.prototype.split(c) for a one-character separator: the array of
\* the pieces between the occurrences of c (never empty).
RECURSIVE split(_, _)
split(s, c) ==
  IF \A i \in 1..Len(s) : s[i] # c
  THEN <<s>>
  ELSE LET k == CHOOSE i \in 1..Len(s) :
                  s[i] = c /\ \A j \in 1..(i - 1) : s[j] # c
       IN  <<SubSeq(s, 1, k - 1)>> \o split(Drop(s, k), c)

\* (a variant that reads the element after the one asked for)
ArrayAtNext(arr, i) == IF i + 1 < Len(arr) THEN arr[i + 2] ELSE Undefined

\* arr[i], with JavaScript's 0-based index.
ArrayAt(arr, i) == IF i < Len(arr) THEN arr[i + 1] ELSE Undefined

\* s.replace(/^(https?:\/\/)?(www\.)?/, ''): the pattern is anchored and
\* case-sensitive, each group is optional and matched at most once.
stripPrefix(s) ==
  LET afterScheme == IF startsWith(s, <<"h","t","t","p","s",":","/","/">>) THEN Drop(s, 8)
                     ELSE IF startsWith(s, <<"h","t","t","p",":","/","/">>) THEN Drop(s, 7)
                     ELSE s
  IN  IF startsWith(afterScheme, <<"w","w","w",".">>) THEN Drop(afterScheme, 4)
      ELSE afterScheme

-----------------------------------------------------------------------------
(* 32-bit integers as two 16-bit limbs.                                    *)

Limb == 2 ^ 16

\* ToInt32 of an integer given as hi * 2^16 + lo with any integers hi, lo:
\* the unsigned 32-bit pattern, normalised.
ToInt32(hi, lo) ==
  [hi |-> (hi + (lo \div Limb)) % Limb, lo |-> lo % Limb]

IsInt32(h) == h.hi \in 0..(Limb - 1) /\ h.lo \in 0..(Limb - 1)

IsNegative(h) == h.hi >= 32768

\* (a variant that returns the accumulator as it is)
MathAbsSkipped(h) == h

\* Math.abs of the signed reading of a 32-bit pattern; the result may be
\* 2^31 = [hi |-> 32768, lo |-> 0].
MathAbs(h) ==
  IF IsNegative(h)
  THEN IF h.lo = 0 THEN [hi |-> Limb - h.hi, lo |-> 0]
       ELSE [hi |-> Limb - 1 - h.hi, lo |-> Limb - h.lo]
  ELSE h

\* hash % m for a non-negative hash.
Mod(h, m) == (((h.hi % m) * (Limb % m)) + h.lo) % m

-----------------------------------------------------------------------------
(* utils/securityAssessment                                                *)

\* (a variant that adds the shifted accumulator to itself: hash * 33)
HashStepAdds(h, c) ==
  LET shl == ToInt32(h.hi * 32, h.lo * 32)
  IN  ToInt32(shl.hi + h.hi, (shl.lo + h.lo) + charCodeAt(c))

\* One turn of simpleHash's loop:
\*   hash = ((hash << 5) - hash) + char;  hash = hash & hash;
HashStep(h, c) ==
  LET shl == ToInt32(h.hi * 32, h.lo * 32)
  IN  ToInt32(shl.hi - h.hi, (shl.lo - h.lo) + charCodeAt(c))

\* for (let i = 0; i < str.length; i++) { ... }, with i counted from 1.
\* The accumulator is tested to be a 32-bit pattern before the next turn,
\* which also makes TLC evaluate it turn by turn.
RECURSIVE HashLoop(_, _, _)
HashLoop(h, str, i) ==
  IF i > Len(str) THEN h
  ELSE LET next == HashStep(h, str[i])
       IN  IF IsInt32(next) THEN HashLoop(next, str, i + 1) ELSE next

simpleHash(str) == MathAbs(HashLoop([hi |-> 0, lo |-> 0], str, 1))

trustedDomains ==
  << <<"g","o","o","g","l","e",".","c","o","m">>, <<"g","i","t","h","u","b",".","c","o","m">>, <<"m","i","c","r","o","s","o","f","t",".","c","o","m">>, <<"a","p","p","l","e",".","c","o","m">>,
     <<"a","m","a","z","o","n",".","c","o","m">>, <<"c","l","o","u","d","f","l","a","r","e",".","c","o","m">>, <<"m","o","z","i","l","l","a",".","o","r","g">>, <<"w","3",".","o","r","g">>,
     <<"s","t","a","c","k","o","v","e","r","f","l","o","w",".","c","o","m">>, <<"w","i","k","i","p","e","d","i","a",".","o","r","g">>, <<"e","d","u">>, <<"g","o","v">> >>

isTrustedDomain(domain) ==
  LET lower == toLowerCase(domain)
      normalized == IF startsWith(lower, <<"w","w","w",".">>) THEN Drop(lower, 4) ELSE lower
  IN  \E k \in 1..Len(trustedDomains) :
        \/ normalized = trustedDomains[k]
        \/ endsWith(normalized, <<".">> \o trustedDomains[k])
        \/ endsWith(normalized, <<".","e","d","u">>)
        \/ endsWith(normalized, <<".","g","o","v">>)

\* domainRegex = /^(?!:\/\/)([a-zA-Z0-9-]+\.)+[a-zA-Z]{2,}$/
domainRegexTest(s) ==
  LET labels == split(s, ".")
      n == Len(labels)
      isLetter(c) == c \in Range(LowerLetters) \cup Range(UpperLetters)
      isLabelChar(c) == isLetter(c) \/ c \in Range(Digits) \/ c = "-"
  IN  /\ ~ startsWith(s, <<":","/","/">>)
      /\ n >= 2
      /\ \A k \in 1..(n - 1) :
           /\ labels[k] # <<>>
           /\ \A i \in 1..Len(labels[k]) : isLabelChar(labels[k][i])
      /\ Len(labels[n]) >= 2
      /\ \A i \in 1..Len(labels[n]) : isLetter(labels[n][i])

\* (a variant that also cuts the argument at a '?', as cleanDomain does)
isValidDomainCutsQuery(domain) ==
  LET cleanedArg ==
        ArrayAt(split(ArrayAt(split(stripPrefix(domain), "/"), 0), "?"), 0)
  IN  domainRegexTest(cleanedArg)

isValidDomain(domain) ==
  LET cleanedArg == ArrayAt(split(stripPrefix(domain), "/"), 0)
  IN  domainRegexTest(cleanedArg)

\* (a variant without toLowerCase)
cleanDomainCaseSensitive(inp) ==
  LET beforeSlash == ArrayAt(split(stripPrefix(trim(inp)), "/"), 0)
  IN  IF beforeSlash = Undefined THEN Undefined
      ELSE ArrayAt(split(beforeSlash, "?"), 0)

\* input.trim().toLowerCase().replace(...).split('/')[0].split('?')[0];
\* an undefined array element has no split method, so Undefined stands for
\* the TypeError of calling it.
cleanDomain(inp) ==
  LET beforeSlash ==
        ArrayAt(split(stripPrefix(toLowerCase(trim(inp))), "/"), 0)
  IN  IF beforeSlash = Undefined THEN Undefined
      ELSE ArrayAt(split(beforeSlash, "?"), 0)

AffirmationText == "Continue monitoring and maintain current security controls"

\* (a variant whose Content-Security-Policy roll must exceed 5)
headersOfStricterCSP(isTrusted, hash) ==
  << [name |-> "HSTS (Strict-Transport-Security)",
      present |-> isTrusted \/ Mod(hash, 7) > 2,
      recommendation |-> "Enable HSTS with a minimum max-age of 31536000 seconds"],
     [name |-> "Content-Security-Policy",
      present |-> isTrusted \/ Mod(hash, 11) > 5,
      recommendation |-> "Implement a strict CSP that limits script and style sources"],
     [name |-> "X-Frame-Options",
      present |-> isTrusted \/ Mod(hash, 5) > 1,
      recommendation |-> "Set to DENY or SAMEORIGIN to prevent framing attacks"],
     [name |-> "X-Content-Type-Options",
      present |-> isTrusted \/ Mod(hash, 4) > 0,
      recommendation |-> "Set to 'nosniff' to prevent MIME type confusion"] >>

\* The four header findings, in the order of the array literal.
headersOf(isTrusted, hash) ==
  << [name |-> "HSTS (Strict-Transport-Security)",
      present |-> isTrusted \/ Mod(hash, 7) > 2,
      recommendation |-> "Enable HSTS with a minimum max-age of 31536000 seconds"],
     [name |-> "Content-Security-Policy",
      present |-> isTrusted \/ Mod(hash, 11) > 4,
      recommendation |-> "Implement a strict CSP that limits script and style sources"],
     [name |-> "X-Frame-Options",
      present |-> isTrusted \/ Mod(hash, 5) > 1,
      recommendation |-> "Set to DENY or SAMEORIGIN to prevent framing attacks"],
     [name |-> "X-Content-Type-Options",
      present |-> isTrusted \/ Mod(hash, 4) > 0,
      recommendation |-> "Set to 'nosniff' to prevent MIME type confusion"] >>

\* (a variant that rolls the hash for trusted domains too)
hasSSLUntrusted(isTrusted, hash) == Mod(hash, 10) > 2

hasSSLOf(isTrusted, hash) == isTrusted \/ Mod(hash, 10) > 2

\* (a variant that calls the certificate of a site without SSL Expired)
sslOfExpiredWithoutSSL(isTrusted, hash) ==
  LET hasSSL == hasSSLOf(isTrusted, hash)
      certRoll == Mod(hash, 100)
  IN  IF ~ hasSSL
      THEN [available |-> hasSSL, certificateStatus |-> "Expired",
            expiryDays |-> <<>>]
      ELSE IF isTrusted
      THEN [available |-> hasSSL, certificateStatus |-> "Valid",
            expiryDays |-> <<90 + Mod(hash, 275)>>]
      ELSE IF certRoll > 20
      THEN [available |-> hasSSL, certificateStatus |-> "Valid",
            expiryDays |-> <<30 + Mod(hash, 335)>>]
      ELSE IF certRoll > 5
      THEN [available |-> hasSSL, certificateStatus |-> "Unknown",
            expiryDays |-> <<>>]
      ELSE [available |-> hasSSL, certificateStatus |-> "Expired",
            expiryDays |-> <<>>]

\* (a variant that gives every valid certificate the window of a trusted
\* domain)
sslOfTrustedWindow(isTrusted, hash) ==
  LET hasSSL == hasSSLOf(isTrusted, hash)
      certRoll == Mod(hash, 100)
  IN  IF ~ hasSSL
      THEN [available |-> hasSSL, certificateStatus |-> "Unknown",
            expiryDays |-> <<>>]
      ELSE IF isTrusted \/ certRoll > 20
      THEN [available |-> hasSSL, certificateStatus |-> "Valid",
            expiryDays |-> <<90 + Mod(hash, 275)>>]
      ELSE IF certRoll > 5
      THEN [available |-> hasSSL, certificateStatus |-> "Unknown",
            expiryDays |-> <<>>]
      ELSE [available |-> hasSSL, certificateStatus |-> "Expired",
            expiryDays |-> <<>>]

\* certStatus and expiryDays; a null expiryDays is the empty sequence.
sslOf(isTrusted, hash) ==
  LET hasSSL == hasSSLOf(isTrusted, hash)
      certRoll == Mod(hash, 100)
  IN  IF ~ hasSSL
      THEN [available |-> hasSSL, certificateStatus |-> "Unknown",
            expiryDays |-> <<>>]
      ELSE IF isTrusted
      THEN [available |-> hasSSL, certificateStatus |-> "Valid",
            expiryDays |-> <<90 + Mod(hash, 275)>>]
      ELSE IF certRoll > 20
      THEN [available |-> hasSSL, certificateStatus |-> "Valid",
            expiryDays |-> <<30 + Mod(hash, 335)>>]
      ELSE IF certRoll > 5
      THEN [available |-> hasSSL, certificateStatus |-> "Unknown",
            expiryDays |-> <<>>]
      ELSE [available |-> hasSSL, certificateStatus |-> "Expired",
            expiryDays |-> <<>>]

\* (a variant whose DNS roll must exceed 4)
dnsOfRollAbove4(isTrusted, hash) ==
  LET dnsReachable == isTrusted \/ Mod(hash, 20) > 4
  IN  [reachable |-> dnsReachable,
       responseTime |-> IF dnsReachable
                        THEN ToString(50 + Mod(hash, 150)) \o "ms"
                        ELSE "N/A"]

\* (a variant whose DNS roll must exceed 2)
dnsOfStricter(isTrusted, hash) ==
  LET dnsReachable == isTrusted \/ Mod(hash, 20) > 2
  IN  [reachable |-> dnsReachable,
       responseTime |-> IF dnsReachable
                        THEN ToString(50 + Mod(hash, 150)) \o "ms"
                        ELSE "N/A"]

dnsOf(isTrusted, hash) ==
  LET dnsReachable == isTrusted \/ Mod(hash, 20) > 1
  IN  [reachable |-> dnsReachable,
       responseTime |-> IF dnsReachable
                        THEN ToString(50 + Mod(hash, 150)) \o "ms"
                        ELSE "N/A"]

Max(a, b) == IF a >= b THEN a ELSE b
Min(a, b) == IF a <= b THEN a ELSE b

MissingCount(headers) == Cardinality({k \in 1..Len(headers) : ~ headers[k].present})

\* (a variant with the deduction of the doc comment for an Unknown
\* certificate, 20, and without the final clamp)
riskScoreUnclamped(ssl, headers, dns) ==
  100 - (IF ~ ssl.available THEN 30 ELSE 0)
      - (IF ssl.certificateStatus \in {"Unknown", "Expired"} THEN 20 ELSE 0)
      - 10 * MissingCount(headers)
      - (IF ~ dns.reachable THEN 15 ELSE 0)

\* (a variant that takes 30 points for every missing header)
riskScoreHeavyHeaders(ssl, headers, dns) ==
  LET afterSSL == 100 - (IF ~ ssl.available THEN 30 ELSE 0)
      afterUnknown == afterSSL - (IF ssl.certificateStatus = "Unknown" THEN 10 ELSE 0)
      afterExpired == afterUnknown - (IF ssl.certificateStatus = "Expired" THEN 20 ELSE 0)
      afterHeaders == afterExpired - 30 * MissingCount(headers)
      afterDNS == afterHeaders - (IF ~ dns.reachable THEN 15 ELSE 0)
  IN  Max(0, Min(100, afterDNS))

\* (a variant with the deduction of the doc comment for an Unknown
\* certificate, 20, and with the final clamp)
riskScoreDocumented(ssl, headers, dns) ==
  Max(0, Min(100, riskScoreUnclamped(ssl, headers, dns)))

\* let riskScore = 100; ... riskScore = Math.max(0, Math.min(100, riskScore))
riskScoreOf(ssl, headers, dns) ==
  LET afterSSL == 100 - (IF ~ ssl.available THEN 30 ELSE 0)
      afterUnknown == afterSSL - (IF ssl.certificateStatus = "Unknown" THEN 10 ELSE 0)
      afterExpired == afterUnknown - (IF ssl.certificateStatus = "Expired" THEN 20 ELSE 0)
      afterHeaders == afterExpired - 10 * MissingCount(headers)
      afterDNS == afterHeaders - (IF ~ dns.reachable THEN 15 ELSE 0)
  IN  Max(0, Min(100, afterDNS))

\* (a variant with strict comparisons)
overallRiskStrict(riskScore) ==
  IF riskScore > 70 THEN "Low"
  ELSE IF riskScore > 40 THEN "Medium"
  ELSE "High"

overallRiskOf(riskScore) ==
  IF riskScore >= 70 THEN "Low"
  ELSE IF riskScore >= 40 THEN "Medium"
  ELSE "High"

RECURSIVE headerRecommendations(_)
headerRecommendations(headers) ==
  IF headers = <<>> THEN <<>>
  ELSE (IF ~ Head(headers).present THEN <<Head(headers).recommendation>> ELSE <<>>)
       \o headerRecommendations(Tail(headers))

\* (a variant without the affirmation)
recommendationsWithoutAffirmation(ssl, headers, dns) ==
  (IF ~ ssl.available
   THEN <<"Implement SSL/TLS encryption to secure data in transit">> ELSE <<>>)
  \o (IF ssl.certificateStatus = "Expired"
      THEN <<"Renew the SSL/TLS certificate immediately">> ELSE <<>>)
  \o (IF ssl.certificateStatus = "Unknown"
      THEN <<"Verify SSL/TLS certificate configuration">> ELSE <<>>)
  \o headerRecommendations(headers)
  \o (IF ~ dns.reachable
      THEN <<"Investigate DNS configuration and ensure proper resolution">>
      ELSE <<>>)

\* (a variant that reports the DNS finding before the headers)
recommendationsDnsFirst(ssl, headers, dns) ==
  LET found ==
        (IF ~ ssl.available
         THEN <<"Implement SSL/TLS encryption to secure data in transit">> ELSE <<>>)
        \o (IF ssl.certificateStatus = "Expired"
            THEN <<"Renew the SSL/TLS certificate immediately">> ELSE <<>>)
        \o (IF ssl.certificateStatus = "Unknown"
            THEN <<"Verify SSL/TLS certificate configuration">> ELSE <<>>)
        \o (IF ~ dns.reachable
            THEN <<"Investigate DNS configuration and ensure proper resolution">>
            ELSE <<>>)
        \o headerRecommendations(headers)
  IN  IF Len(found) = 0 THEN <<AffirmationText>> ELSE found

recommendationsOf(ssl, headers, dns) ==
  LET found ==
        (IF ~ ssl.available
         THEN <<"Implement SSL/TLS encryption to secure data in transit">> ELSE <<>>)
        \o (IF ssl.certificateStatus = "Expired"
            THEN <<"Renew the SSL/TLS certificate immediately">> ELSE <<>>)
        \o (IF ssl.certificateStatus = "Unknown"
            THEN <<"Verify SSL/TLS certificate configuration">> ELSE <<>>)
        \o headerRecommendations(headers)
        \o (IF ~ dns.reachable
            THEN <<"Investigate DNS configuration and ensure proper resolution">>
            ELSE <<>>)
  IN  IF Len(found) = 0 THEN <<AffirmationText>> ELSE found

\* performSecurityAssessment throws exactly when cleanDomain does.
performSecurityAssessmentThrows(domain) == cleanDomain(domain) = Undefined

\* (a variant whose response time is measured on the clock)
performSecurityAssessmentTimed(domain, t) ==
  LET cleanedDomain == cleanDomain(domain)
      hash == simpleHash(cleanedDomain)
      isTrusted == isTrustedDomain(cleanedDomain)
      ssl == sslOf(isTrusted, hash)
      headers == headersOf(isTrusted, hash)
      dns == [dnsOf(isTrusted, hash) EXCEPT
                !.responseTime = ToString(50 + (t % 150)) \o "ms"]
      riskScore == riskScoreOf(ssl, headers, dns)
  IN  [domain |-> cleanedDomain,
       timestamp |-> t,
       ssl |-> ssl,
       headers |-> headers,
       dns |-> dns,
       overallRisk |-> overallRiskOf(riskScore),
       riskScore |-> riskScore,
       recommendations |-> recommendationsOf(ssl, headers, dns)]

\* The report returned at clock reading t (new Date().toISOString()).
performSecurityAssessment(domain, t) ==
  LET cleanedDomain == cleanDomain(domain)
      hash == simpleHash(cleanedDomain)
      isTrusted == isTrustedDomain(cleanedDomain)
      ssl == sslOf(isTrusted, hash)
      headers == headersOf(isTrusted, hash)
      dns == dnsOf(isTrusted, hash)
      riskScore == riskScoreOf(ssl, headers, dns)
  IN  [domain |-> cleanedDomain,
       timestamp |-> t,
       ssl |-> ssl,
       headers |-> headers,
       dns |-> dns,
       overallRisk |-> overallRiskOf(riskScore),
       riskScore |-> riskScore,
       recommendations |-> recommendationsOf(ssl, headers, dns)]

-----------------------------------------------------------------------------
(* utils/pdfExport, components/ExportView and                              *)
(* components/SecurityReportSummary: what they derive from a report.       *)

\* pdfExport: const ratingLabel = report.riskScore >= 80 ? ... (ExportView
\* computes the same label by the same expression).
ratingLabel(riskScore) ==
  IF riskScore >= 80 THEN "Strong (Low Risk)"
  ELSE IF riskScore >= 50 THEN "Moderate (Medium Risk)"
  ELSE "Weak (High Risk)"

\* pdfExport: the paragraph of the Risk Interpretation section, named by the
\* posture it states in capitals.
riskInterpretation(riskScore) ==
  IF riskScore >= 80 THEN "STRONG"
  ELSE IF riskScore >= 50 THEN "MODERATE"
  ELSE "WEAK"

\* SecurityReportSummary.getRatingLabel
getRatingLabel(score) ==
  IF score >= 80
  THEN [label |-> "Strong", description |-> "Low Risk - Excellent security posture"]
  ELSE IF score >= 50
  THEN [label |-> "Moderate", description |-> "Medium Risk - Improvements recommended"]
  ELSE [label |-> "Weak", description |-> "High Risk - Immediate action required"]

\* arr.filter((v, i, a) => a.indexOf(v) === i): the first occurrence of
\* every element, in order.
RECURSIVE firstOccurrences(_, _)
firstOccurrences(arr, i) ==
  IF i > Len(arr) THEN <<>>
  ELSE (IF \A j \in 1..(i - 1) : arr[j] # arr[i] THEN <<arr[i]>> ELSE <<>>)
       \o firstOccurrences(arr, i + 1)

\* arr.slice(0, n)
slice0(arr, n) == SubSeq(arr, 1, Min(n, Len(arr)))

\* SecurityReportSummary: the list before .filter(...).slice(0, 8).
technicalControlsAll(r) ==
  r.recommendations
  \o (IF r.ssl.available THEN <<>>
      ELSE <<"Deploy SSL/TLS certificates from a trusted Certificate Authority">>)
  \o <<"Implement Web Application Firewall (WAF) for additional protection",
       "Enable security logging and monitoring (SIEM integration recommended)",
       "Configure automated security scanning in CI/CD pipelines",
       "Implement Content Security Policy with strict directives">>

\* (a variant that keeps six entries)
technicalControlsSix(r) == slice0(firstOccurrences(technicalControlsAll(r), 1), 6)

\* SecurityReportSummary.technicalControls
technicalControls(r) == slice0(firstOccurrences(technicalControlsAll(r), 1), 8)

\* report.domain.replace(/\./g, '-')
replaceDots(s) == [i \in 1..Len(s) |-> IF s[i] = "." THEN "-" ELSE s[i]]

\* Two decimal digits of n < 100.
Pad2(n) == <<Digits[(n \div 10) + 1], Digits[(n % 10) + 1]>>

\* Date.prototype.toISOString: the clock counts half days from
\* 2026-11-06T00:00:00.000Z.
toISOString(t) ==
  <<"2","0","2","6">> \o <<"-">> \o Pad2(11) \o <<"-">> \o Pad2(6 + (t \div 2))
  \o <<"T">> \o Pad2(12 * (t % 2)) \o <<":","0","0",":","0","0",".","0","0","0","Z">>

\* (a variant that keeps the time of day)
isoDateWithTime(t) == toISOString(t)

\* new Date().toISOString().split('T')[0]
isoDate(t) == ArrayAt(split(toISOString(t), "T"), 0)

\* const filename = `security-report-${...}-${...}.pdf`
filenameOf(r, t) ==
  <<"s","e","c","u","r","i","t","y","-","r","e","p","o","r","t","-">>
  \o replaceDots(r.domain) \o <<"-">> \o isoDate(t) \o <<".","p","d","f">>

\* generateSecurityReportPDF(report) at clock reading t: the file handed to
\* doc.save with the rating it prints.
generateSecurityReportPDF(r, t) ==
  [filename |-> filenameOf(r, t),
   ratingLabel |-> ratingLabel(r.riskScore),
   riskInterpretation |-> riskInterpretation(r.riskScore),
   report |-> r,
   at |-> t]

-----------------------------------------------------------------------------
(* Bounds and the strings the model draws its inputs from.                 *)

MaxWww == 2      \* repetitions of the www. prefix in a harness input
MaxClock == 2    \* readings of the clock
MaxCalls == 2    \* submissions accepted by the page

RECURSIVE Rep(_, _)
Rep(s, n) == IF n = 0 THEN <<>> ELSE s \o Rep(s, n - 1)

Pads == {<<>>, <<" ">>}

Schemes == {<<>>, <<"h","t","t","p",":","/","/">>, <<"h","t","t","p","s",":","/","/">>, <<"H","T","T","P","S",":","/","/">>}

WwwForms == {Rep(w, n) : w \in {<<"w","w","w",".">>, <<"W","W","W",".">>}, n \in 0..MaxWww}

Bodies ==
  {<<>>, <<"g","o","o","g","l","e",".","c","o","m">>, <<"G","o","o","g","l","e",".","C","O","M">>, <<"d","o","c","s",".","g","i","t","h","u","b",".","c","o","m">>, <<"m","i","t",".","e","d","u">>, <<"e","d","u">>,
   <<"a",".","i","o">>, <<"b",".","i","o">>, <<"p",".","i","o">>, <<"s","b",".","i","o">>, <<"c",".","i","o">>, <<"a","b",".","i","o">>,
   <<"a",".","c">>, <<"a",".",".","c","o","m">>, <<"a","_","b",".","i","o">>, <<"a",".","i","o"," ">>}

Tails == {<<>>, <<"/","p","a","t","h","?","x","=","1">>, <<"?","x","=","1","/","y">>, <<"/">>}

PageInputs == {<<"p",".","i","o">>, <<" ","g","o","o","g","l","e",".","c","o","m">>, <<"a",".","c">>, <<"b",".","i","o","/","x","?","y">>, <<"s","b",".","i","o","?","x">>}

Null == [null |-> TRUE]       \* the null of useState<SecurityReport | null>
Thrown == [threw |-> TRUE]    \* a call that ended in an exception

Concat(p) == p.ws1 \o p.scheme \o p.www \o p.body \o p.tail \o p.ws2

-----------------------------------------------------------------------------
(* A caller of the three exported functions, one call after the other.     *)

HarnessInit ==
  /\ parts \in [ws1 : Pads, scheme : Schemes, www : WwwForms,
                body : Bodies, tail : Tails, ws2 : Pads]
  /\ input = Concat(parts)
  /\ pc = "start"
  /\ cleaned = Undefined
  /\ recleaned = Undefined
  /\ valid = FALSE
  /\ first = Null
  /\ second = Null
  /\ bare = Null
  /\ typed = <<>>
  /\ currentView = "test"
  /\ isLoading = FALSE
  /\ report = Null
  /\ toast = "none"
  /\ pending = <<>>
  /\ engineCalls = 0
  /\ saved = Null
  /\ now = 0

\* try { performSecurityAssessment(domain) } catch { ... }
Call(domain, t) ==
  IF performSecurityAssessmentThrows(domain) THEN Thrown
  ELSE performSecurityAssessment(domain, t)

CallCleanDomain ==
  /\ pc = "start"
  /\ cleaned' = cleanDomain(input)
  /\ pc' = "cleaned"
  /\ UNCHANGED <<parts, input, recleaned, valid, first, second, bare,
                 typed, currentView, isLoading, report, toast, pending,
                 engineCalls, saved, now>>

CallCleanDomainAgain ==
  /\ pc = "cleaned"
  /\ recleaned' = cleanDomain(cleaned)
  /\ pc' = "recleaned"
  /\ UNCHANGED <<parts, input, cleaned, valid, first, second, bare,
                 typed, currentView, isLoading, report, toast, pending,
                 engineCalls, saved, now>>

CallIsValidDomain ==
  /\ pc = "recleaned"
  /\ valid' = isValidDomain(input)
  /\ pc' = "validated"
  /\ UNCHANGED <<parts, input, cleaned, recleaned, first, second, bare,
                 typed, currentView, isLoading, report, toast, pending,
                 engineCalls, saved, now>>

CallAssessment ==
  /\ pc = "validated"
  /\ first' = Call(input, now)
  /\ pc' = "assessed"
  /\ UNCHANGED <<parts, input, cleaned, recleaned, valid, second, bare,
                 typed, currentView, isLoading, report, toast, pending,
                 engineCalls, saved, now>>

\* The same call at the same or a later reading of the clock.
CallAssessmentAgain ==
  /\ pc = "assessed"
  /\ \E t \in {now, MaxClock} :
       /\ now' = t
       /\ second' = Call(input, t)
  /\ pc' = "reassessed"
  /\ UNCHANGED <<parts, input, cleaned, recleaned, valid, first, bare,
                 typed, currentView, isLoading, report, toast, pending,
                 engineCalls, saved>>

\* The call on the lower-cased body alone.
CallAssessmentBare ==
  /\ pc = "reassessed"
  /\ bare' = Call(toLowerCase(parts.body), now)
  /\ pc' = "done"
  /\ UNCHANGED <<parts, input, cleaned, recleaned, valid, first, second,
                 typed, currentView, isLoading, report, toast, pending,
                 engineCalls, saved, now>>

-----------------------------------------------------------------------------
(* pages/Index with DomainInput and AppSidebar.                            *)

PageInit ==
  /\ parts = [ws1 |-> <<>>, scheme |-> <<>>, www |-> <<>>,
              body |-> <<>>, tail |-> <<>>, ws2 |-> <<>>]
  /\ input = <<>>
  /\ pc = "page"
  /\ cleaned = Undefined
  /\ recleaned = Undefined
  /\ valid = FALSE
  /\ first = Null
  /\ second = Null
  /\ bare = Null
  /\ typed = <<>>
  /\ currentView = "test"
  /\ isLoading = FALSE
  /\ report = Null
  /\ toast = "none"
  /\ pending = <<>>
  /\ engineCalls = 0
  /\ saved = Null
  /\ now = 0

\* DomainInput: onChange of the text field, disabled while isLoading.
TypeDomain(s) ==
  /\ pc = "page"
  /\ currentView = "test"
  /\ ~ isLoading
  /\ typed' = s
  /\ UNCHANGED <<harnessVars, currentView, isLoading, report, toast,
                 pending, engineCalls, saved, now>>

\* handleTestWebsite up to its await: the validation, then setIsLoading(true)
\* and setReport(null), and the timer that resumes it.
\* (a variant that raises the loading flag before it validates)
handleTestWebsiteLoadsFirst(domain) ==
  IF ~ isValidDomain(domain)
  THEN /\ isLoading' = TRUE
       /\ toast' = "Invalid Domain"
       /\ UNCHANGED <<report, pending, engineCalls>>
  ELSE /\ isLoading' = TRUE
       /\ report' = Null
       /\ pending' = Append(pending, domain)
       /\ UNCHANGED <<toast, engineCalls>>

\* (a variant that leaves the previous report on display)
handleTestWebsiteKeepsReport(domain) ==
  IF ~ isValidDomain(domain)
  THEN /\ toast' = "Invalid Domain"
       /\ UNCHANGED <<isLoading, report, pending, engineCalls>>
  ELSE /\ isLoading' = TRUE
       /\ pending' = Append(pending, domain)
       /\ UNCHANGED <<report, toast, engineCalls>>

handleTestWebsite(domain) ==
  IF ~ isValidDomain(domain)
  THEN /\ toast' = "Invalid Domain"
       /\ UNCHANGED <<isLoading, report, pending, engineCalls>>
  ELSE /\ isLoading' = TRUE
       /\ report' = Null
       /\ pending' = Append(pending, domain)
       /\ UNCHANGED <<toast, engineCalls>>

\* (a variant whose button is not disabled while isLoading)
handleSubmitWhileLoading ==
  /\ pc = "page"
  /\ currentView = "test"
  /\ trim(typed) # <<>>
  /\ Len(pending) + engineCalls < MaxCalls
  /\ handleTestWebsite(trim(typed))
  /\ UNCHANGED <<harnessVars, typed, currentView, saved, now>>

\* DomainInput.handleSubmit: the button is disabled while isLoading or when
\* the trimmed text is empty.
handleSubmit ==
  /\ pc = "page"
  /\ currentView = "test"
  /\ ~ isLoading
  /\ trim(typed) # <<>>
  /\ Len(pending) + engineCalls < MaxCalls
  /\ handleTestWebsite(trim(typed))
  /\ UNCHANGED <<harnessVars, typed, currentView, saved, now>>

\* handleTestWebsite after its await: try / catch / finally.
resumeAfterDelay(k) ==
  /\ pc = "page"
  /\ k \in 1..Len(pending)
  /\ pending' = [i \in 1..(Len(pending) - 1) |->
                   IF i < k THEN pending[i] ELSE pending[i + 1]]
  /\ engineCalls' = engineCalls + 1
  /\ LET result == Call(pending[k], now)
     IN  IF result = Thrown
         THEN /\ toast' = "Assessment Failed"
              /\ UNCHANGED report
         ELSE /\ report' = result
              /\ toast' = "Assessment Complete"
  /\ isLoading' = FALSE
  /\ UNCHANGED <<harnessVars, typed, currentView, saved, now>>

ViewTypes == {"test", "report", "terms", "export"}

\* (a variant with no navigation entry disabled)
handleViewChangeAlways(view) ==
  /\ pc = "page"
  /\ currentView' = view
  /\ UNCHANGED <<harnessVars, typed, isLoading, report, toast, pending,
                 engineCalls, saved, now>>

\* AppSidebar: onClick of a navigation entry that is not disabled.
handleViewChange(view) ==
  /\ pc = "page"
  /\ ~ (view \in {"report", "export"} /\ report = Null)
  /\ currentView' = view
  /\ UNCHANGED <<harnessVars, typed, isLoading, report, toast, pending,
                 engineCalls, saved, now>>

\* ExportView.handleExport: the view is rendered only with a report.
handleExport ==
  /\ pc = "page"
  /\ currentView = "export"
  /\ report # Null
  /\ saved' = generateSecurityReportPDF(report, now)
  /\ toast' = "PDF Generated"
  /\ UNCHANGED <<harnessVars, typed, currentView, isLoading, report, pending,
                 engineCalls, now>>

\* Time passes.
Tick ==
  /\ pc = "page"
  /\ now < MaxClock
  /\ now' = now + 1
  /\ UNCHANGED <<harnessVars, typed, currentView, isLoading, report, toast,
                 pending, engineCalls, saved>>

-----------------------------------------------------------------------------

Init == HarnessInit \/ PageInit

Next ==
  \/ CallCleanDomain
  \/ CallCleanDomainAgain
  \/ CallIsValidDomain
  \/ CallAssessment
  \/ CallAssessmentAgain
  \/ CallAssessmentBare
  \/ \E s \in PageInputs : TypeDomain(s)
  \/ handleSubmit
  \/ \E k \in 1..Len(pending) : resumeAfterDelay(k)
  \/ \E view \in ViewTypes : handleViewChange(view)
  \/ handleExport
  \/ Tick

Spec == Init /\ [][Next]_vars

\* The page alone, with the timer of setTimeout: a callback that is due is
\* run.
Resume == \E k \in 1..Len(pending) : resumeAfterDelay(k)

PageNext ==
  \/ \E s \in PageInputs : TypeDomain(s)
  \/ handleSubmit
  \/ Resume
  \/ \E view \in ViewTypes : handleViewChange(view)
  \/ handleExport
  \/ Tick

\* The step of Resume as the timer sees it: the callback that is due leaves
\* the queue.  (The page queues a callback only when none is waiting, so
\* the callback that is due is the first.)
timerFires ==
  /\ pc = "page"
  /\ pending # <<>>
  /\ pending' = Tail(pending)

LiveSpec == PageInit /\ [][PageNext]_vars /\ WF_pending(timerFires)

-----------------------------------------------------------------------------
(* Properties.                                                             *)

AfterClean == {"cleaned", "recleaned", "validated", "assessed", "reassessed", "done"}
AfterReclean == {"recleaned", "validated", "assessed", "reassessed", "done"}
AfterValidate == {"validated", "assessed", "reassessed", "done"}
AfterAssess == {"assessed", "reassessed", "done"}
AfterReassess == {"reassessed", "done"}

ReportFields ==
  {"domain", "ssl", "headers", "dns", "overallRisk", "riskScore", "recommendations"}

IsReport(r) == r # Null /\ r # Thrown

\* Two reports agree in every field but timestamp.
SameButTimestamp(r1, r2) ==
  /\ IsReport(r1)
  /\ IsReport(r2)
  /\ \A f \in ReportFields : r1[f] = r2[f]

FullyPopulated(r) ==
  /\ IsReport(r)
  /\ r.domain # Undefined
  /\ r.timestamp \in 0..MaxClock
  /\ r.ssl.available \in BOOLEAN
  /\ r.ssl.certificateStatus \in {"Valid", "Unknown", "Expired"}
  /\ Len(r.ssl.expiryDays) <= 1
  /\ Len(r.headers) = 4
  /\ \A k \in 1..4 : r.headers[k].present \in BOOLEAN
  /\ r.dns.reachable \in BOOLEAN
  /\ r.overallRisk \in {"Low", "Medium", "High"}
  /\ r.riskScore \in Int
  /\ Len(r.recommendations) >= 1

C2_Idempotent == pc \in AfterReclean => recleaned = cleaned

\* C3: the result of cleanDomain has no http:// or https:// prefix, does not
\* start with www., and contains neither '/' nor '?'.
C3_CleanForm ==
  pc \in AfterClean =>
    /\ ~ startsWith(cleaned, <<"h","t","t","p",":","/","/">>)
    /\ ~ startsWith(cleaned, <<"h","t","t","p","s",":","/","/">>)
    /\ ~ startsWith(cleaned, <<"w","w","w",".">>)
    /\ "/" \notin Range(cleaned)
    /\ "?" \notin Range(cleaned)

\* C4: the riskScore of every report is an integer between 0 and 100.
C4_ScoreBounds ==
  /\ pc \in AfterAssess => IsReport(first) /\ first.riskScore \in 0..100
  /\ report # Null => report.riskScore \in 0..100

C4_Witness ==
  /\ pc = "assessed"
  /\ input = <<>>
  /\ ~ first.ssl.available
  /\ MissingCount(first.headers) = 4
  /\ ~ first.dns.reachable
  /\ first.riskScore = 5

RiskBands(r) ==
  /\ r.overallRisk = "Low" <=> r.riskScore >= 70
  /\ r.overallRisk = "Medium" <=> (40 <= r.riskScore /\ r.riskScore < 70)
  /\ r.overallRisk = "High" <=> r.riskScore < 40

\* C5: in every report overallRisk is Low exactly when riskScore >= 70,
\* Medium exactly when 40 <= riskScore < 70, High exactly when riskScore < 40.
C5_RiskBands ==
  /\ pc \in AfterAssess => IsReport(first) /\ RiskBands(first)
  /\ report # Null => RiskBands(report)

C5_Witness ==
  /\ pc = "assessed"
  /\ first.riskScore = 70
  /\ first.overallRisk = "Low"

\* C6: when the cleaned domain is trusted, whatever its hash, the report has
\* SSL available, a Valid certificate, all four headers present, DNS
\* reachable, riskScore 100, overallRisk Low and the affirmation as its only
\* recommendation.
C6_TrustedFloor ==
  (pc \in AfterAssess /\ isTrustedDomain(cleanDomain(input))) =>
    /\ IsReport(first)
    /\ first.ssl.available
    /\ first.ssl.certificateStatus = "Valid"
    /\ \A k \in 1..4 : first.headers[k].present
    /\ Len(first.headers) = 4
    /\ first.dns.reachable
    /\ first.riskScore = 100
    /\ first.overallRisk = "Low"
    /\ first.recommendations = <<AffirmationText>>

\* A trusted domain whose hash fails the SSL and header rolls of an
\* untrusted one.
C6_Witness ==
  /\ pc = "assessed"
  /\ isTrustedDomain(cleaned)
  /\ Mod(simpleHash(cleaned), 10) <= 2
  /\ Mod(simpleHash(cleaned), 4) = 0
  /\ first.riskScore = 100

\* The domains d of C7: lower-case, no scheme, no leading www., no '/', no
\* '?', no surrounding white space.
IsBareDomain(d) ==
  /\ d = toLowerCase(d)
  /\ ~ startsWith(d, <<"h","t","t","p",":","/","/">>)
  /\ ~ startsWith(d, <<"h","t","t","p","s",":","/","/">>)
  /\ ~ startsWith(d, <<"w","w","w",".">>)
  /\ "/" \notin Range(d)
  /\ "?" \notin Range(d)
  /\ trim(d) = d

\* The inputs of C7: white space, a scheme, one www., the body, and a tail
\* that is empty or starts with '/' or '?', each optional.
IsDecorated(p) ==
  /\ toLowerCase(p.scheme) \in {<<>>, <<"h","t","t","p",":","/","/">>, <<"h","t","t","p","s",":","/","/">>}
  /\ toLowerCase(p.www) \in {<<>>, <<"w","w","w",".">>}
  /\ p.tail # <<>> => Head(p.tail) \in {"/", "?"}

\* C7: for a bare domain d, cleanDomain maps every decorated and re-cased
\* form of d to d, and the report on that input is the report on d (except
\* timestamp).
C7_DecoratedInput ==
  (/\ pc = "done"
   /\ IsBareDomain(toLowerCase(parts.body))
   /\ IsDecorated(parts)) =>
    /\ cleaned = toLowerCase(parts.body)
    /\ SameButTimestamp(first, bare)

C7_Witness ==
  /\ pc = "done"
  /\ parts.scheme = <<"H","T","T","P","S",":","/","/">>
  /\ parts.www = <<"W","W","W",".">>
  /\ parts.body = <<"G","o","o","g","l","e",".","C","O","M">>
  /\ parts.tail = <<"/","p","a","t","h","?","x","=","1">>
  /\ parts.ws1 # <<>>
  /\ IsBareDomain(toLowerCase(parts.body))
  /\ IsDecorated(parts)
  /\ cleaned = <<"g","o","o","g","l","e",".","c","o","m">>
  /\ first.riskScore = 100

\* The string up to the first character of cuts.
UpToFirst(s, cuts) ==
  IF \E i \in 1..Len(s) : s[i] \in cuts
  THEN SubSeq(s, 1, (CHOOSE i \in 1..Len(s) :
                       s[i] \in cuts /\ \A j \in 1..(i - 1) : s[j] \notin cuts) - 1)
  ELSE s

\* One or more labels of letters, digits and hyphens, each followed by a
\* dot, then a last label of at least two letters.
MatchesDomainPattern(s) ==
  LET letters == Range(LowerLetters) \cup Range(UpperLetters)
      labelChars == letters \cup Range(Digits) \cup {"-"}
  IN  \E k \in 1..Len(s) :
        /\ s[k] = "."
        /\ s[1] # "."
        /\ \A i \in 1..k : s[i] \in labelChars \cup {"."}
        /\ \A i \in 1..(k - 1) : ~ (s[i] = "." /\ s[i + 1] = ".")
        /\ Len(s) - k >= 2
        /\ \A i \in (k + 1)..Len(s) : s[i] \in letters

\* C8 as stated: isValidDomain(s) is true exactly when s, stripped of an
\* optional http:// or https://, of an optional www. and of everything from
\* the first '/' or '?', matches the domain pattern.
C8_CutsAtSlashOrQuery ==
  pc \in AfterValidate =>
    (valid <=> MatchesDomainPattern(UpToFirst(stripPrefix(input), {"/", "?"})))

\* C8, amended: isValidDomain(s) is true exactly when s, stripped of an
\* optional http:// or https://, of an optional www. and of everything from
\* the first '/', matches the domain pattern; a '?' is not cut.
C8_CutsAtSlash ==
  pc \in AfterValidate =>
    (valid <=> MatchesDomainPattern(UpToFirst(stripPrefix(input), {"/"})))

\* An input with a '?' after a well-formed domain: rejected.
C8_Witness ==
  /\ pc = "validated"
  /\ ~ valid
  /\ MatchesDomainPattern(UpToFirst(stripPrefix(input), {"/", "?"}))
  /\ "?" \in Range(UpToFirst(stripPrefix(input), {"/"}))

\* C9: a submission that fails isValidDomain leaves isLoading false and the
\* report as it was, schedules and makes no call of
\* performSecurityAssessment, and shows the 'Invalid Domain' notice.
C9_InvalidRejected ==
  [][(handleSubmit /\ ~ isValidDomain(trim(typed))) =>
       /\ ~ isLoading
       /\ ~ isLoading'
       /\ report' = report
       /\ pending' = pending
       /\ engineCalls' = engineCalls
       /\ toast' = "Invalid Domain"]_vars

\* An invalid submission made while a report is on display.
C9_Witness ==
  /\ pc = "page"
  /\ toast = "Invalid Domain"
  /\ report # Null
  /\ ~ isLoading
  /\ engineCalls = 1
  /\ pending = <<>>

\* C10: performSecurityAssessment returns a fully populated report for every
\* string, and the page never shows 'Assessment Failed'.
C10_Total ==
  /\ toast # "Assessment Failed"
  /\ pc \in AfterAssess => FullyPopulated(first)
  /\ pc \in AfterReassess => FullyPopulated(second)
  /\ report # Null => FullyPopulated(report)

\* The empty string and a string that is no domain, assessed.
C10_Witness ==
  /\ pc = "assessed"
  /\ ~ valid
  /\ cleaned = <<>>
  /\ FullyPopulated(first)

\* The score bands of the engine (Score >= 70 Low, 40-69 Medium, < 40 High)
\* in the words of the export and of the summary.
BandWord(riskScore) ==
  IF riskScore >= 70 THEN "Strong"
  ELSE IF riskScore >= 40 THEN "Moderate"
  ELSE "Weak"

WordOfRisk(overallRisk) ==
  CASE overallRisk = "Low" -> "Strong"
    [] overallRisk = "Medium" -> "Moderate"
    [] overallRisk = "High" -> "Weak"

\* The first word of a rating label.
LabelWord(label) ==
  CASE label = "Strong (Low Risk)" -> "Strong"
    [] label = "Moderate (Medium Risk)" -> "Moderate"
    [] label = "Weak (High Risk)" -> "Weak"

PostureWord(paragraph) ==
  CASE paragraph = "STRONG" -> "Strong"
    [] paragraph = "MODERATE" -> "Moderate"
    [] paragraph = "WEAK" -> "Weak"

\* C11: the exported risk label, the risk-interpretation paragraph and the
\* summary's rating are 'Strong' exactly when the score is at least 70,
\* 'Moderate' exactly when it is 40..69 and 'Weak' below 40, so that they
\* agree with report.overallRisk.
C11_SameBands ==
  /\ saved # Null =>
       /\ LabelWord(saved.ratingLabel) = BandWord(saved.report.riskScore)
       /\ PostureWord(saved.riskInterpretation) = BandWord(saved.report.riskScore)
       /\ LabelWord(saved.ratingLabel) = WordOfRisk(saved.report.overallRisk)
  /\ (pc = "page" /\ report # Null) =>
       /\ getRatingLabel(report.riskScore).label = BandWord(report.riskScore)
       /\ getRatingLabel(report.riskScore).label = WordOfRisk(report.overallRisk)

\* The parts of a file name around the domain and the date.
FilePrefix == <<"s","e","c","u","r","i","t","y","-","r","e","p","o","r","t","-">>
FileSuffix == <<".","p","d","f">>

IsDigit(c) == c \in Range(Digits)

\* YYYY-MM-DD
IsCalendarDate(d) ==
  /\ Len(d) = 10
  /\ \A i \in {1, 2, 3, 4, 6, 7, 9, 10} : IsDigit(d[i])
  /\ d[5] = "-"
  /\ d[8] = "-"

\* C12: the exported file is named 'security-report-', the domain with every
\* '.' replaced by '-', '-', the calendar date (YYYY-MM-DD) of the moment of
\* export, '.pdf'; the only '.' of the name is that of '.pdf'.
C12_Filename ==
  saved # Null =>
    LET name == saved.filename
        domain == saved.report.domain
        from == Len(FilePrefix) + Len(domain) + 2
        date == SubSeq(name, from, Len(name) - Len(FileSuffix))
        middle == SubSeq(name, Len(FilePrefix) + 1, Len(FilePrefix) + Len(domain))
    IN  /\ Len(name) = Len(FilePrefix) + Len(domain) + 1 + 10 + Len(FileSuffix)
        /\ startsWith(name, FilePrefix)
        /\ endsWith(name, FileSuffix)
        /\ Len(middle) = Len(domain)
        /\ \A i \in 1..Len(domain) :
             middle[i] = (IF domain[i] = "." THEN "-" ELSE domain[i])
        /\ name[from - 1] = "-"
        /\ IsCalendarDate(date)
        /\ date = SubSeq(toISOString(saved.at), 1, 10)
        /\ {i \in 1..Len(name) : name[i] = "."} = {Len(name) - 3}

\* A report exported on a later day than the one it was made on.
C12_Witness ==
  /\ pc = "page"
  /\ saved # Null
  /\ saved.at = MaxClock
  /\ saved.report.timestamp = 0
  /\ isoDate(saved.at) # isoDate(saved.report.timestamp)
  /\ \E i \in 1..Len(saved.report.domain) : saved.report.domain[i] = "."

\* The accumulator of the claim: acc = (acc * 31 + char code), wrapped to 32
\* bits after every character.
RECURSIVE Times31Loop(_, _, _)
Times31Loop(acc, str, i) ==
  IF i > Len(str) THEN acc
  ELSE LET next == ToInt32(acc.hi * 31, (acc.lo * 31) + charCodeAt(str[i]))
       IN  IF IsInt32(next) THEN Times31Loop(next, str, i + 1) ELSE next

Times31Hash(str) == MathAbs(Times31Loop([hi |-> 0, lo |-> 0], str, 1))

\* C13: simpleHash(s) is the absolute value of the accumulator that starts
\* at 0 and becomes acc * 31 + char code, wrapped to the signed 32-bit range,
\* for each character in order; the shift-and-subtract form of the code
\* gives the same value for every string.
C13_HashIsTimes31 ==
  pc = "assessed" =>
    /\ simpleHash(input) = Times31Hash(input)
    /\ cleaned # Undefined => simpleHash(cleaned) = Times31Hash(cleaned)

\* A domain whose accumulator wrapped and ended negative, so that Math.abs
\* changed it.
C13_Witness ==
  /\ pc = "assessed"
  /\ IsReport(first)
  /\ cleaned # <<>>
  /\ IsNegative(HashLoop([hi |-> 0, lo |-> 0], cleaned, 1))
  /\ simpleHash(cleaned) = Times31Hash(cleaned)

\* The ten domains of the allow-list that are domains.
ListedDomains == SubSeq(trustedDomains, 1, 10)

\* The claim's reading of the allow-list, without its entries 'edu' and 'gov'.
TrustedAsListed(d) ==
  LET lower == toLowerCase(d)
      normalized == IF startsWith(lower, <<"w","w","w",".">>) THEN Drop(lower, 4) ELSE lower
  IN  \/ \E k \in 1..Len(ListedDomains) :
           \/ normalized = ListedDomains[k]
           \/ endsWith(normalized, <<".">> \o ListedDomains[k])
      \/ endsWith(normalized, <<".","e","d","u">>)
      \/ endsWith(normalized, <<".","g","o","v">>)

\* C14: isTrustedDomain(d) holds exactly when d, lower-cased and with one
\* leading 'www.' removed, is one of the ten listed domains or ends with
\* '.edu', '.gov' or '.' and a listed domain; the entries 'edu' and 'gov' of
\* the list change the result for no input.
C14_TrustedAsListed ==
  (pc \in AfterAssess /\ cleaned # Undefined) =>
    (isTrustedDomain(cleaned) <=> TrustedAsListed(cleaned))

\* The report of the harness's first call, and the report the page shows.
Assessed(r) ==
  \/ pc = "assessed" /\ IsReport(first) /\ r = first
  \/ pc = "page" /\ report # Null /\ r = report

AssessedReports == {r \in {first, report} : Assessed(r)}

SSLAsSpecified(r) ==
  LET hash == simpleHash(r.domain)
      trusted == isTrustedDomain(r.domain)
      roll == Mod(hash, 100)
      ssl == r.ssl
      status == ssl.certificateStatus
  IN  /\ ssl.available <=> (trusted \/ Mod(hash, 10) > 2)
      /\ ~ ssl.available => status = "Unknown" /\ ssl.expiryDays = <<>>
      /\ (ssl.available /\ trusted) =>
           status = "Valid" /\ ssl.expiryDays = <<90 + Mod(hash, 275)>>
      /\ (ssl.available /\ ~ trusted /\ roll > 20) =>
           status = "Valid" /\ ssl.expiryDays = <<30 + Mod(hash, 335)>>
      /\ (ssl.available /\ ~ trusted /\ roll > 5 /\ roll <= 20) =>
           status = "Unknown" /\ ssl.expiryDays = <<>>
      /\ (ssl.available /\ ~ trusted /\ roll <= 5) =>
           status = "Expired" /\ ssl.expiryDays = <<>>
      /\ ssl.expiryDays # <<>> <=> status = "Valid"
      /\ status = "Valid" =>
           /\ Len(ssl.expiryDays) = 1
           /\ ssl.expiryDays[1] \in 30..364
           /\ trusted => ssl.expiryDays[1] \in 90..364

\* C15: ssl.available is trusted or hash mod 10 > 2; without SSL the status
\* is Unknown with no expiry; with SSL a trusted domain is Valid with expiry
\* 90 + hash mod 275, and otherwise, with r = hash mod 100, r > 20 is Valid
\* with expiry 30 + hash mod 335, 5 < r <= 20 is Unknown and r <= 5 is
\* Expired, both with no expiry.  So expiryDays is present exactly when the
\* status is Valid, and is then in 30..364 (90..364 for a trusted domain).
C15_SSL == \A r \in AssessedReports : SSLAsSpecified(r)

\* An untrusted domain with a valid certificate that expires in less than
\* 90 days.
C15_Witness ==
  /\ pc = "assessed"
  /\ IsReport(first)
  /\ ~ isTrustedDomain(first.domain)
  /\ first.ssl.certificateStatus = "Valid"
  /\ first.ssl.expiryDays # <<>>
  /\ first.ssl.expiryDays[1] < 90

\* The four headers with the modulus and the threshold of each.
HeaderRolls ==
  << [name |-> "HSTS (Strict-Transport-Security)", modulus |-> 7, above |-> 2],
     [name |-> "Content-Security-Policy", modulus |-> 11, above |-> 4],
     [name |-> "X-Frame-Options", modulus |-> 5, above |-> 1],
     [name |-> "X-Content-Type-Options", modulus |-> 4, above |-> 0] >>

HeadersAsSpecified(r) ==
  LET hash == simpleHash(r.domain)
      trusted == isTrustedDomain(r.domain)
  IN  /\ Len(r.headers) = 4
      /\ \A k \in 1..4 :
           /\ r.headers[k].name = HeaderRolls[k].name
           /\ r.headers[k].present <=>
                (trusted \/ Mod(hash, HeaderRolls[k].modulus) > HeaderRolls[k].above)

\* C16: headers has exactly four entries, in the order HSTS,
\* Content-Security-Policy, X-Frame-Options, X-Content-Type-Options, each
\* present when the domain is trusted or hash mod M > T with (M, T) = (7, 2),
\* (11, 4), (5, 1), (4, 0).
C16_Headers == \A r \in AssessedReports : HeadersAsSpecified(r)

\* An untrusted domain whose Content-Security-Policy roll is 5, the least
\* one that passes, and whose HSTS roll fails.
C16_Witness ==
  /\ pc = "assessed"
  /\ IsReport(first)
  /\ ~ isTrustedDomain(first.domain)
  /\ Mod(simpleHash(first.domain), 11) = 5
  /\ first.headers[2].present
  /\ ~ first.headers[1].present

DNSAsSpecified(r) ==
  LET hash == simpleHash(r.domain)
      trusted == isTrustedDomain(r.domain)
  IN  /\ r.dns.reachable <=> (trusted \/ Mod(hash, 20) > 1)
      /\ r.dns.responseTime = "N/A" <=> ~ r.dns.reachable
      /\ r.dns.reachable =>
           \E n \in 50..199 :
             /\ n = 50 + Mod(hash, 150)
             /\ r.dns.responseTime = ToString(n) \o "ms"

\* C17: dns.reachable is trusted or hash mod 20 > 1; responseTime is 'N/A'
\* exactly when the DNS is unreachable, and otherwise the decimal number
\* 50 + hash mod 150, which is in 50..199, followed by 'ms'.
C17_DNS == \A r \in AssessedReports : DNSAsSpecified(r)

\* An untrusted domain whose DNS roll is 2, the least one that passes.
C17_Witness ==
  /\ pc = "assessed"
  /\ IsReport(first)
  /\ ~ isTrustedDomain(first.domain)
  /\ Mod(simpleHash(first.domain), 20) = 2
  /\ first.dns.reachable
  /\ first.dns.responseTime # "N/A"

\* The deductions of a report, with the given cost of an Unknown
\* certificate.
Deductions(r, unknownCost) ==
  (IF ~ r.ssl.available THEN 30 ELSE 0)
  + (IF r.ssl.certificateStatus = "Unknown" THEN unknownCost ELSE 0)
  + (IF r.ssl.certificateStatus = "Expired" THEN 20 ELSE 0)
  + 10 * Cardinality({k \in 1..Len(r.headers) : ~ r.headers[k].present})
  + (IF ~ r.dns.reachable THEN 15 ELSE 0)

Clamp(n) == IF n < 0 THEN 0 ELSE IF n > 100 THEN 100 ELSE n

C19_UnknownCosts20 ==
  \A r \in AssessedReports : r.riskScore = Clamp(100 - Deductions(r, 20))

\* The checks of a report in the order of their recommendations.
ChecksOf(r) ==
  << [failed |-> ~ r.ssl.available,
      text |-> "Implement SSL/TLS encryption to secure data in transit"],
     [failed |-> r.ssl.certificateStatus = "Expired",
      text |-> "Renew the SSL/TLS certificate immediately"],
     [failed |-> r.ssl.certificateStatus = "Unknown",
      text |-> "Verify SSL/TLS certificate configuration"] >>
  \o [k \in 1..Len(r.headers) |->
        [failed |-> ~ r.headers[k].present, text |-> r.headers[k].recommendation]]
  \o << [failed |-> ~ r.dns.reachable,
         text |-> "Investigate DNS configuration and ensure proper resolution"] >>

IsFailed(check) == check.failed

RecommendationsAsSpecified(r) ==
  LET checks == ChecksOf(r)
      failing == SelectSeq(checks, IsFailed)
  IN  /\ failing # <<>> =>
           r.recommendations = [i \in 1..Len(failing) |-> failing[i].text]
      /\ \A i \in 1..Len(checks) :
           ~ checks[i].failed =>
             \A j \in 1..Len(r.recommendations) :
               r.recommendations[j] # checks[i].text

\* C20: the recommendations list the checks that failed in a fixed order:
\* SSL missing, certificate Expired, certificate Unknown, each missing
\* header's recommendation in header order, DNS unreachable; the
\* recommendation of a check that passed does not appear.
C20_Recommendations == \A r \in AssessedReports : RecommendationsAsSpecified(r)

\* A report with a failed SSL check, a missing header and an unreachable
\* DNS, and with headers that are present.
C20_Witness ==
  /\ pc = "assessed"
  /\ IsReport(first)
  /\ ~ first.ssl.available
  /\ \E k \in 1..4 : ~ first.headers[k].present
  /\ \E k \in 1..4 : first.headers[k].present
  /\ ~ first.dns.reachable
  /\ Len(first.recommendations) = 4

\* The number of failed checks of a report.
FailedChecks(r) == Len(SelectSeq(ChecksOf(r), IsFailed))

HasAffirmation(r) ==
  \E j \in 1..Len(r.recommendations) : r.recommendations[j] = AffirmationText

\* C21: recommendations is never empty: it has one entry for every failed
\* check when a check failed, and is otherwise the affirmation alone; the
\* affirmation is present exactly when riskScore is 100.
C21_NeverEmpty ==
  \A r \in AssessedReports :
    /\ Len(r.recommendations) >= 1
    /\ FailedChecks(r) >= 1 => Len(r.recommendations) = FailedChecks(r)
    /\ FailedChecks(r) = 0 => r.recommendations = <<AffirmationText>>
    /\ HasAffirmation(r) <=> r.riskScore = 100

\* An untrusted domain that passes every check.
C21_Witness ==
  /\ pc = "assessed"
  /\ IsReport(first)
  /\ ~ isTrustedDomain(first.domain)
  /\ FailedChecks(first) = 0
  /\ first.recommendations = <<AffirmationText>>
  /\ first.riskScore = 100

\* The strings DomainInput hands to handleTestWebsite that it accepts.
AcceptedInputs == {d \in {trim(s) : s \in PageInputs} : isValidDomain(d)}

\* C22: when handleTestWebsite accepts a string it sets isLoading to true
\* and report to null at once; after the delay, however long, isLoading is
\* eventually false with report the engine's report for that string
\* (report.domain is cleanDomain of the string).
C22_Completes ==
  /\ [][(handleSubmit /\ isValidDomain(trim(typed))) =>
          (isLoading' /\ report' = Null /\ pending' = <<trim(typed)>>)]_vars
  /\ \A d \in AcceptedInputs :
       (pc = "page" /\ pending = <<d>>)
         ~> (~ isLoading /\ report # Null /\ report.domain = cleanDomain(d))

\* The second submission, of a string with a path, completed after the
\* clock ran out.
C22_Witness ==
  /\ pc = "page"
  /\ ~ isLoading
  /\ engineCalls = 2
  /\ now = MaxClock
  /\ report # Null
  /\ report.timestamp = MaxClock
  /\ report.domain = <<"b",".","i","o">>
  /\ typed # report.domain

\* C23: for every string that isValidDomain accepts, the domain the engine
\* assesses and reports, cleanDomain of the string, matches the domain
\* pattern.
C23_CleanedMatches ==
  (pc \in AfterAssess /\ valid /\ IsReport(first)) =>
    /\ first.domain = cleaned
    /\ domainRegexTest(cleaned)

\* C24: in every report an unreachable DNS comes with no SSL and with no
\* X-Frame-Options header (hash mod 20 <= 1 forces hash mod 10 <= 1 and
\* hash mod 5 <= 1), hence riskScore is at most 35 and overallRisk is High.
C24_UnreachableIsHigh ==
  \A r \in AssessedReports :
    ~ r.dns.reachable =>
      /\ ~ r.ssl.available
      /\ r.headers[3].name = "X-Frame-Options"
      /\ ~ r.headers[3].present
      /\ Mod(simpleHash(r.domain), 10) <= 1
      /\ Mod(simpleHash(r.domain), 5) <= 1
      /\ r.riskScore <= 35
      /\ r.overallRisk = "High"

\* An unreachable domain with the other three headers present: the score
\* is 35.
C24_Witness ==
  /\ pc = "assessed"
  /\ IsReport(first)
  /\ ~ first.dns.reachable
  /\ \A k \in {1, 2, 4} : first.headers[k].present
  /\ first.riskScore = 35
  /\ first.overallRisk = "High"

C27_ViewHasReport ==
  (pc = "page" /\ currentView \in {"report", "export"}) => report # Null

\* The export view showing the report of a second submission, after the
\* first report was exported.
C27_Witness ==
  /\ pc = "page"
  /\ currentView = "export"
  /\ engineCalls = 2
  /\ report # Null
  /\ saved # Null
  /\ saved.report # report

\* C28: at most one assessment is pending at any time, and isLoading is true
\* exactly while one is pending (so no completion can overwrite the report
\* of a later submission or lower isLoading under it).
C28_OnePending ==
  pc = "page" =>
    /\ Len(pending) <= 1
    /\ isLoading <=> pending # <<>>
    /\ isLoading => report = Null

\* A second submission waiting for its timer after the first completed.
C28_Witness ==
  /\ pc = "page"
  /\ isLoading
  /\ Len(pending) = 1
  /\ engineCalls = 1
  /\ toast = "Assessment Complete"

\* The moduli the engine applies to the hash.
Moduli == {4, 5, 7, 10, 11, 20, 100, 150, 275, 335}

TwoTo31 == [hi |-> 32768, lo |-> 0]

\* A hash in 0..2^31, which is 2^31 only for the accumulator -2^31, and
\* whose remainders are in range.
HashInRange(str) ==
  LET acc == HashLoop([hi |-> 0, lo |-> 0], str, 1)
      hash == simpleHash(str)
  IN  /\ IsInt32(hash)
      /\ ~ IsNegative(hash) \/ hash = TwoTo31
      /\ hash = TwoTo31 => acc = TwoTo31
      /\ \A m \in Moduli : Mod(hash, m) \in 0..(m - 1)

\* C29: simpleHash never returns a negative number: its result is in
\* 0..2^31, and is 2^31 only when the wrapped accumulator is -2^31, so that
\* every hash mod M of the engine is in 0..M-1.
C29_HashNonNegative ==
  pc = "assessed" =>
    /\ HashInRange(input)
    /\ cleaned # Undefined => HashInRange(cleaned)

\* An input that differs from its cleaned domain and whose accumulator
\* ended negative.
C29_Witness ==
  /\ pc = "assessed"
  /\ input # cleaned
  /\ IsNegative(HashLoop([hi |-> 0, lo |-> 0], input, 1))
  /\ ~ IsNegative(simpleHash(input))
  /\ HashInRange(input)

NoDuplicates(seq) ==
  \A i \in 1..Len(seq) : \A j \in 1..Len(seq) : seq[i] = seq[j] => i = j

\* C30: for every report of the engine the summary's technical-controls
\* list has no duplicate, has at most 8 entries and begins with all of
\* report.recommendations in their order; the engine emits at most 7.
C30_TechnicalControls ==
  \A r \in AssessedReports :
    LET controls == technicalControls(r)
        n == Len(r.recommendations)
    IN  /\ NoDuplicates(controls)
        /\ Len(controls) <= 8
        /\ n <= 7
        /\ n <= Len(controls)
        /\ SubSeq(controls, 1, n) = r.recommendations

\* A report with seven recommendations: the list is cut to eight entries.
C30_Witness ==
  /\ pc = "assessed"
  /\ IsReport(first)
  /\ Len(first.recommendations) = 7
  /\ Len(technicalControlsAll(first)) > 8
  /\ Len(technicalControls(first)) = 8

=============================================================================
